---- MODULE Spec2Model ----
(***************************************************************************)
(* A model of EditView (src/src/edit_view.rs): the scroll geometry, the    *)
(* viewport notification and the translation of keyboard, mouse and menu   *)
(* input into engine commands.                                             *)
(*                                                                         *)
(* Pixel quantities that the code holds as f32 are held as integers in     *)
(* units of 1/SCALE pixel.  mouse_wheel multiplies an i32 by 0.5, every    *)
(* other quantity is a whole number of pixels, so every value the code     *)
(* computes is a multiple of half a pixel and is exact in f32 at the       *)
(* magnitudes explored here.  Pixel sizes and screen y are whole pixels.   *)
(***************************************************************************)
EXTENDS Integers, Sequences, FiniteSets

VARIABLES
    view_id,        \* EditView.view_id
    line_cache,     \* EditView.line_cache
    resources,      \* EditView.resources is Some(..)
    scroll_offset,  \* EditView.scroll_offset, in 1/SCALE pixels
    size,           \* EditView.size, <<x, y>> in pixels
    viewport,       \* EditView.viewport, <<start, end>>
    op,             \* the operation that ran last: [name, args]
    sent,           \* the commands that operation handed to win.send_edit_cmd, in order
    ret,            \* what it returned ("true" / "false"; "unit" when it returns nothing)
    invalidated,    \* whether it asked the window to repaint
    last_scroll     \* params of the latest "scroll" command in the outbound stream, <<>> if none

vars == <<view_id, line_cache, resources, scroll_offset, size, viewport,
          op, sent, ret, invalidated, last_scroll>>

view_vars == <<view_id, line_cache, resources, scroll_offset, size, viewport>>

-----------------------------------------------------------------------------
(* Bounds and input samples *)

MaxHeight == 2
MaxLine == 2

Heights == 0..MaxHeight
Lines == 0..MaxLine
Sizes == {<<0, 0>>, <<800, 600>>}
LowSizes == {<<800, 30>>}
ScreenYs == {-40, -1, 0, 5, 6, 22, 23, 600}
ViewIds == {"", "view-id-1"}
Deltas == {-2000, -34, 1}
Chars == {8, 31, 32, 65, 55296, 1114112}

-----------------------------------------------------------------------------
(* Constants of the program *)

TOP_PAD == 6
LINE_SPACE == 17
SCALE == 2
BOTTOM_SLOP == 20

M_SHIFT == {"SHIFT"}
M_CTRL == {"CTRL"}
M_ALT == {"ALT"}
Mods == SUBSET (M_SHIFT \cup M_CTRL \cup M_ALT)

Keys == {"VK_RETURN", "VK_TAB", "VK_UP", "VK_DOWN", "VK_LEFT", "VK_RIGHT",
         "VK_PRIOR", "VK_NEXT", "VK_HOME", "VK_END", "VK_ESCAPE", "VK_BACK",
         "VK_DELETE", "VK_OEM_4", "VK_OEM_6", "VK_F1"}

-----------------------------------------------------------------------------
(* The line cache (linecache.rs), of which EditView reads only height() *)

LineCacheNew == [height |-> 0]

LineCacheHeight(lc) == lc.height

\* a well-formed patch with the height it declares, or a malformed one
Updates == [ok : {TRUE}, height : Heights] \cup {[ok |-> FALSE, height |-> 0]}

LineCacheApplyUpdate(lc, update) ==
    IF update.ok THEN [height |-> update.height] ELSE lc

-----------------------------------------------------------------------------
(* Pure helpers *)

Min(a, b) == IF a < b THEN a ELSE b

saturating_sub(a, b) == IF a > b THEN a - b ELSE 0

\* win.send_edit_cmd(method, params, view_id)
Cmd(method, params, vid) == [method |-> method, params |-> params, view_id |-> vid]

\* send_action tagging its command with an empty view identity
ActionCmd_blank_id(method, vid) == Cmd(method, <<>>, "")

\* send_action: a command with params json!([])
ActionCmd(method, vid) == Cmd(method, <<>>, vid)

\* s with its two branches exchanged
s_swapped(mods, normal, shifted) ==
    IF (mods \cap M_SHIFT) # {} THEN normal ELSE shifted

s(mods, normal, shifted) ==
    IF (mods \cap M_SHIFT) # {} THEN shifted ELSE normal

\* std::char::from_u32(ch).is_some()
from_u32_is_some(ch) ==
    /\ ch >= 0
    /\ ch <= 1114111
    /\ ~(ch >= 55296 /\ ch <= 57343)

max_scroll(lc) ==
    SCALE * (TOP_PAD + LINE_SPACE * saturating_sub(LineCacheHeight(lc), 1))

constrain_scroll(so, lc) ==
    IF so < 0 THEN 0
    ELSE IF so > max_scroll(lc) THEN max_scroll(lc)
    ELSE so

\* y_to_line without the final min with the height of the line cache
y_to_line_unbounded(y, so, lc) ==
    LET num == SCALE * y + so - SCALE * TOP_PAD
    IN  IF num < 0 THEN 0 ELSE num \div (SCALE * LINE_SPACE)

\* y in whole screen pixels, so in 1/SCALE pixels
y_to_line(y, so, lc) ==
    LET num == SCALE * y + so - SCALE * TOP_PAD
        line == IF num < 0 THEN 0 ELSE num \div (SCALE * LINE_SPACE)
    IN  Min(line, LineCacheHeight(lc))

line_to_content_y(line) == SCALE * (TOP_PAD + line * LINE_SPACE)

\* visible_range with last_line cut to the height of the line cache, as render does
visible_range_clamped(so, sz, lc) ==
    LET first_line == y_to_line(0, so, lc)
        last_line == Min(first_line + (sz[2] \div LINE_SPACE) + 1, LineCacheHeight(lc))
    IN  <<first_line, last_line>>

\* the range update_viewport computes
\* visible_range with its two ends exchanged
visible_range_reversed(so, sz, lc) ==
    LET first_line == y_to_line(0, so, lc)
    IN  <<first_line + sz[2] \div LINE_SPACE + 1, first_line>>

visible_range(so, sz, lc) ==
    LET first_line == y_to_line(0, so, lc)
        last_line == first_line + (sz[2] \div LINE_SPACE) + 1
    IN  <<first_line, last_line>>

\* update_viewport without its comparison with the remembered range
update_viewport_sent_always(vp, so, sz, lc, vid) ==
    <<Cmd("scroll", visible_range(so, sz, lc), vid)>>

\* update_viewport comparing only the start of the range
update_viewport_sent_start_only(vp, so, sz, lc, vid) ==
    IF visible_range(so, sz, lc)[1] # vp[1]
    THEN <<Cmd("scroll", visible_range(so, sz, lc), vid)>>
    ELSE <<>>

\* the commands update_viewport sends, given the remembered range vp
update_viewport_sent(vp, so, sz, lc, vid) ==
    IF visible_range(so, sz, lc) # vp
    THEN <<Cmd("scroll", visible_range(so, sz, lc), vid)>>
    ELSE <<>>

-----------------------------------------------------------------------------
Init ==
    /\ view_id = ""
    /\ line_cache = LineCacheNew
    /\ resources = FALSE
    /\ scroll_offset = 0
    /\ size = <<0, 0>>
    /\ viewport = <<0, 0>>
    /\ op = [name |-> "new", args |-> <<>>]
    /\ sent = <<>>
    /\ ret = "unit"
    /\ invalidated = FALSE
    /\ last_scroll = <<>>

\* what an operation that sends nothing and repaints nothing leaves behind
Quiet(name, args) ==
    /\ op' = [name |-> name, args |-> args]
    /\ sent' = <<>>
    /\ ret' = "unit"
    /\ invalidated' = FALSE
    /\ last_scroll' = last_scroll

rebuild_resources ==
    /\ resources' = FALSE
    /\ UNCHANGED <<view_id, line_cache, scroll_offset, size, viewport>>
    /\ Quiet("rebuild_resources", <<>>)

\* size ending with update_viewport's assignment of the viewport
size_op_refreshes(x, y) ==
    /\ size' = <<x, y>>
    /\ scroll_offset' = constrain_scroll(scroll_offset, line_cache)
    /\ viewport' = visible_range(scroll_offset', size', line_cache)
    /\ UNCHANGED <<view_id, line_cache, resources>>
    /\ Quiet("size", <<x, y>>)

size_op(x, y) ==
    /\ size' = <<x, y>>
    /\ scroll_offset' = constrain_scroll(scroll_offset, line_cache)
    /\ UNCHANGED <<view_id, line_cache, resources, viewport>>
    /\ Quiet("size", <<x, y>>)

clear_line_cache ==
    /\ line_cache' = LineCacheNew
    /\ UNCHANGED <<view_id, resources, scroll_offset, size, viewport>>
    /\ Quiet("clear_line_cache", <<>>)

render ==
    /\ resources' = TRUE
    /\ UNCHANGED <<view_id, line_cache, scroll_offset, size, viewport>>
    /\ Quiet("render", <<>>)

set_view_id(v) ==
    /\ view_id' = v
    /\ UNCHANGED <<line_cache, resources, scroll_offset, size, viewport>>
    /\ Quiet("set_view_id", <<v>>)

\* apply_update ending with update_viewport
apply_update_notifies(update) ==
    /\ line_cache' = LineCacheApplyUpdate(line_cache, update)
    /\ scroll_offset' = constrain_scroll(scroll_offset, line_cache')
    /\ viewport' = visible_range(scroll_offset', size, line_cache')
    /\ UNCHANGED <<view_id, resources, size>>
    /\ op' = [name |-> "apply_update", args |-> <<update>>]
    /\ sent' = update_viewport_sent(viewport, scroll_offset', size, line_cache', view_id)
    /\ ret' = "unit"
    /\ invalidated' = FALSE
    /\ last_scroll' = IF sent' # <<>> THEN sent'[1].params ELSE last_scroll

apply_update(update) ==
    /\ line_cache' = LineCacheApplyUpdate(line_cache, update)
    /\ scroll_offset' = constrain_scroll(scroll_offset, line_cache')
    /\ UNCHANGED <<view_id, resources, size, viewport>>
    /\ Quiet("apply_update", <<update>>)

\* char without its test for control characters
char_inserts_controls(ch, mods) ==
    /\ UNCHANGED view_vars
    /\ op' = [name |-> "char", args |-> <<ch, mods>>]
    /\ sent' = IF from_u32_is_some(ch)
               THEN <<Cmd("insert", [chars |-> <<ch>>], view_id)>>
               ELSE <<>>
    /\ ret' = "unit"
    /\ invalidated' = FALSE
    /\ last_scroll' = last_scroll

char(ch, mods) ==
    /\ UNCHANGED view_vars
    /\ op' = [name |-> "char", args |-> <<ch, mods>>]
    /\ sent' = IF from_u32_is_some(ch) /\ ch >= 32
               THEN <<Cmd("insert", [chars |-> <<ch>>], view_id)>>
               ELSE <<>>
    /\ ret' = "unit"
    /\ invalidated' = FALSE
    /\ last_scroll' = last_scroll

\* the methods keydown hands to send_action, in order
keydown_actions(vk_code, mods) ==
    CASE vk_code = "VK_RETURN" -> <<"insert_newline">>
      [] vk_code = "VK_TAB" -> <<"insert_tab">>
      [] vk_code = "VK_UP" ->
            IF mods = M_CTRL THEN <<>>
            ELSE IF mods = M_CTRL \cup M_ALT THEN <<"add_selection_above">>
            ELSE <<s(mods, "move_up", "move_up_and_modify_selection")>>
      [] vk_code = "VK_DOWN" ->
            IF mods = M_CTRL THEN <<>>
            ELSE IF mods = M_CTRL \cup M_ALT THEN <<"add_selection_below">>
            ELSE <<s(mods, "move_down", "move_down_and_modify_selection")>>
      [] vk_code = "VK_LEFT" ->
            IF (mods \cap (M_ALT \cup M_CTRL)) # {}
            THEN <<s(mods, "move_word_left", "move_word_left_and_modify_selection")>>
            ELSE <<s(mods, "move_left", "move_left_and_modify_selection")>>
      [] vk_code = "VK_RIGHT" ->
            IF (mods \cap (M_ALT \cup M_CTRL)) # {}
            THEN <<s(mods, "move_word_right", "move_word_right_and_modify_selection")>>
            ELSE <<s(mods, "move_right", "move_right_and_modify_selection")>>
      [] vk_code = "VK_PRIOR" ->
            <<s(mods, "scroll_page_up", "page_up_and_modify_selection")>>
      [] vk_code = "VK_NEXT" ->
            <<s(mods, "scroll_page_down", "page_down_and_modify_selection")>>
      [] vk_code = "VK_HOME" ->
            IF (mods \cap M_CTRL) # {}
            THEN <<s(mods, "move_to_beginning_of_document",
                       "move_to_beginning_of_document_and_modify_selection")>>
            ELSE <<s(mods, "move_to_left_end_of_line",
                       "move_to_left_end_of_line_and_modify_selection")>>
      [] vk_code = "VK_END" ->
            IF (mods \cap M_CTRL) # {}
            THEN <<s(mods, "move_to_end_of_document",
                       "move_to_end_of_document_and_modify_selection")>>
            ELSE <<s(mods, "move_to_right_end_of_line",
                       "move_to_right_end_of_line_and_modify_selection")>>
      [] vk_code = "VK_ESCAPE" -> <<"cancel_operation">>
      [] vk_code = "VK_BACK" ->
            <<IF (mods \cap M_CTRL) # {}
              THEN s(mods, "delete_word_backward", "delete_to_beginning_of_line")
              ELSE "delete_backward",
              "delete_forward">>
      [] vk_code = "VK_DELETE" ->
            <<IF (mods \cap M_CTRL) # {}
              THEN s(mods, "delete_word_forward", "delete_to_end_of_paragraph")
              ELSE "delete_forward",
              "delete_forward">>
      [] vk_code = "VK_OEM_4" -> IF mods = M_CTRL THEN <<"outdent">> ELSE <<>>
      [] vk_code = "VK_OEM_6" -> IF mods = M_CTRL THEN <<"indent">> ELSE <<>>
      [] OTHER -> <<>>

\* keydown_scroll_step with the two directions exchanged
keydown_scroll_step_swapped(vk_code, mods) ==
    IF vk_code = "VK_UP" /\ mods = M_CTRL THEN SCALE * LINE_SPACE
    ELSE IF vk_code = "VK_DOWN" /\ mods = M_CTRL THEN 0 - SCALE * LINE_SPACE
    ELSE 0

\* what the Ctrl+Up / Ctrl+Down arms add to scroll_offset; 0 in every other arm
keydown_scroll_step(vk_code, mods) ==
    IF vk_code = "VK_UP" /\ mods = M_CTRL THEN 0 - SCALE * LINE_SPACE
    ELSE IF vk_code = "VK_DOWN" /\ mods = M_CTRL THEN SCALE * LINE_SPACE
    ELSE 0

\* whether keydown takes one of the two local scroll arms
keydown_scrolls(vk_code, mods) ==
    vk_code \in {"VK_UP", "VK_DOWN"} /\ mods = M_CTRL

\* keydown_returns with [ and ] consumed whenever the CTRL bit is set
keydown_returns_ctrl_bit(vk_code, mods) ==
    CASE vk_code \in {"VK_OEM_4", "VK_OEM_6"} -> (mods \cap M_CTRL) # {}
      [] vk_code \in {"VK_RETURN", "VK_TAB", "VK_UP", "VK_DOWN", "VK_LEFT",
                      "VK_RIGHT", "VK_PRIOR", "VK_NEXT", "VK_HOME", "VK_END",
                      "VK_ESCAPE", "VK_BACK", "VK_DELETE"} -> TRUE
      [] OTHER -> FALSE

\* keydown returning true from its default arm too
keydown_returns_always(vk_code, mods) == TRUE

\* keydown's return value
keydown_returns(vk_code, mods) ==
    CASE vk_code \in {"VK_OEM_4", "VK_OEM_6"} -> mods = M_CTRL
      [] vk_code \in {"VK_RETURN", "VK_TAB", "VK_UP", "VK_DOWN", "VK_LEFT",
                      "VK_RIGHT", "VK_PRIOR", "VK_NEXT", "VK_HOME", "VK_END",
                      "VK_ESCAPE", "VK_BACK", "VK_DELETE"} -> TRUE
      [] OTHER -> FALSE

\* the commands of a sequence of send_action calls
send_actions(methods, vid) ==
    [i \in 1..Len(methods) |-> ActionCmd(methods[i], vid)]

keydown(vk_code, mods) ==
    /\ op' = [name |-> "keydown", args |-> <<vk_code, mods>>]
    /\ ret' = IF keydown_returns(vk_code, mods) THEN "true" ELSE "false"
    /\ UNCHANGED <<view_id, line_cache, resources, size>>
    /\ IF keydown_scrolls(vk_code, mods)
       THEN /\ scroll_offset' =
                   constrain_scroll(scroll_offset + keydown_scroll_step(vk_code, mods),
                                    line_cache)
            /\ sent' = update_viewport_sent(viewport, scroll_offset', size,
                                            line_cache, view_id)
            /\ viewport' = visible_range(scroll_offset', size, line_cache)
            /\ invalidated' = TRUE
       ELSE /\ sent' = send_actions(keydown_actions(vk_code, mods), view_id)
            /\ UNCHANGED <<scroll_offset, viewport>>
            /\ invalidated' = FALSE
    /\ last_scroll' = IF sent' # <<>> /\ sent'[1].method = "scroll"
                      THEN sent'[1].params ELSE last_scroll

\* a menu command: one send_action
menu(name, method) ==
    /\ UNCHANGED view_vars
    /\ op' = [name |-> name, args |-> <<>>]
    /\ sent' = <<ActionCmd(method, view_id)>>
    /\ ret' = "unit"
    /\ invalidated' = FALSE
    /\ last_scroll' = last_scroll

undo == menu("undo", "undo")
redo == menu("redo", "redo")
upper_case_sends_lowercase == menu("upper_case", "lowercase")
upper_case == menu("upper_case", "uppercase")
lower_case == menu("lower_case", "lowercase")
transpose == menu("transpose", "transpose")
add_cursor_above == menu("add_cursor_above", "add_selection_above")
add_cursor_below == menu("add_cursor_below", "add_selection_below")
single_selection == menu("single_selection", "cancel_operation")
select_all == menu("select_all", "select_all")

\* wheel_step without the scaling by 0.5
wheel_step_unscaled(delta) == delta * SCALE

\* (delta as f32) * scroll_scaling with scroll_scaling = 0.5, in 1/SCALE pixels
wheel_step(delta) == (delta * SCALE) \div 2

mouse_wheel(delta, mods) ==
    /\ op' = [name |-> "mouse_wheel", args |-> <<delta, mods>>]
    /\ ret' = "unit"
    /\ UNCHANGED <<view_id, line_cache, resources, size>>
    /\ scroll_offset' = constrain_scroll(scroll_offset - wheel_step(delta), line_cache)
    /\ sent' = update_viewport_sent(viewport, scroll_offset', size, line_cache, view_id)
    /\ viewport' = visible_range(scroll_offset', size, line_cache)
    /\ invalidated' = TRUE
    /\ last_scroll' = IF sent' # <<>> THEN sent'[1].params ELSE last_scroll

\* scroll_to_offset with the bottom slop left out of the offset it assigns
scroll_to_offset_no_slop(line, so, sz) ==
    LET y == line_to_content_y(line)
        h == SCALE * sz[2]
        bottom_slop == SCALE * BOTTOM_SLOP
    IN  IF y < so THEN y
        ELSE IF y > so + h - bottom_slop THEN y - h
        ELSE so

\* scroll_to's new scroll_offset
scroll_to_offset(line, so, sz) ==
    LET y == line_to_content_y(line)
        h == SCALE * sz[2]
        bottom_slop == SCALE * BOTTOM_SLOP
    IN  IF y < so THEN y
        ELSE IF y > so + h - bottom_slop THEN y - (h - bottom_slop)
        ELSE so

scroll_to(line) ==
    /\ scroll_offset' = scroll_to_offset(line, scroll_offset, size)
    /\ UNCHANGED <<view_id, line_cache, resources, size, viewport>>
    /\ Quiet("scroll_to", <<line>>)

-----------------------------------------------------------------------------
(* One step of the view: any public operation, with its arguments drawn    *)
(* from the given samples.                                                 *)
Step(keys, chars, char_mods, deltas, wheel_mods, lines, sizes) ==
    \/ rebuild_resources
    \/ \E sz \in sizes : size_op(sz[1], sz[2])
    \/ clear_line_cache
    \/ render
    \/ \E v \in ViewIds : set_view_id(v)
    \/ \E update \in Updates : apply_update(update)
    \/ \E ch \in chars, mods \in char_mods : char(ch, mods)
    \/ \E vk_code \in keys, mods \in Mods : keydown(vk_code, mods)
    \/ undo
    \/ redo
    \/ upper_case
    \/ lower_case
    \/ transpose
    \/ add_cursor_above
    \/ add_cursor_below
    \/ single_selection
    \/ select_all
    \/ \E delta \in deltas, mods \in wheel_mods : mouse_wheel(delta, mods)
    \/ \E line \in lines : scroll_to(line)

Next == Step(Keys, Chars, Mods, Deltas, Mods, Lines, Sizes \cup LowSizes)

Spec == Init /\ [][Next]_vars

\* every key, character and modifier combination; wheel movements that
\* always run into a limit of the scroll range, scroll_to of the first line
NextInput == Step(Keys, Chars, Mods, {-2000, 2000}, {{}}, {0}, Sizes)

SpecInput == Init /\ [][NextInput]_vars

\* every wheel movement of Deltas and every line of Lines; of the keys, the
\* two that scroll (which send a movement command under other modifiers) and
\* one unmapped key
NextScroll ==
    Step({"VK_UP", "VK_DOWN", "VK_F1"}, {65}, {{}},
         Deltas, Mods, Lines, Sizes)

SpecScroll == Init /\ [][NextScroll]_vars

\* every line of Lines in windows of every height, among them one a little
\* higher than the bottom slop of scroll_to; one key and one wheel movement
\* that scroll by a line
NextScrollTo ==
    Step({"VK_DOWN"}, {65}, {{}}, {-34}, {{}}, Lines, Sizes \cup LowSizes)

SpecScrollTo == Init /\ [][NextScrollTo]_vars

-----------------------------------------------------------------------------
(* Vocabulary of the properties *)

Max(a, b) == IF a > b THEN a ELSE b

Clamp(x, lo, hi) == Min(Max(x, lo), hi)

Height == LineCacheHeight(line_cache)

\* TOP_PAD + LINE_SPACE * max(0, height - 1), in 1/SCALE pixels
LegalMaxScroll(h) == SCALE * (TOP_PAD + LINE_SPACE * Max(0, h - 1))

ScrollIsLegal(so, h) == 0 <= so /\ so <= LegalMaxScroll(h)

\* clamp(floor((y + scroll - TOP_PAD) / LINE_SPACE), 0, height)
LineAt(y, so, h) ==
    Clamp((SCALE * y + so - SCALE * TOP_PAD) \div (SCALE * LINE_SPACE), 0, h)

\* [y_to_line(0), y_to_line(0) + floor(height_px / LINE_SPACE) + 1)
VisibleRange(so, sz, h) ==
    <<LineAt(0, so, h), LineAt(0, so, h) + (sz[2] \div LINE_SPACE) + 1>>

IsKeydown(o, vk_code, mods) ==
    o.name = "keydown" /\ o.args[1] = vk_code /\ o.args[2] = mods

\* the operations that run the viewport notification
IsNotifying(o) ==
    \/ o.name = "mouse_wheel"
    \/ o.name = "keydown" /\ o.args[1] \in {"VK_UP", "VK_DOWN"} /\ o.args[2] = M_CTRL

Shift(mods) == "SHIFT" \in mods
Ctrl(mods) == "CTRL" \in mods
Alt(mods) == "ALT" \in mods

\* S(mods, normal, shifted) of the key dispatch table
S(mods, normal, shifted) == IF Shift(mods) THEN shifted ELSE normal

\* The engine command the key dispatch table gives for (key, mods);
\* "local" for the two scroll rows and "none" where the table has no row.
TableCommand(key, mods) ==
    CASE key = "VK_RETURN" -> "insert_newline"
      [] key = "VK_TAB" -> "insert_tab"
      [] key = "VK_UP" /\ mods = {"CTRL"} -> "local"
      [] key = "VK_UP" /\ mods = {"CTRL", "ALT"} -> "add_selection_above"
      [] key = "VK_UP" -> S(mods, "move_up", "move_up_and_modify_selection")
      [] key = "VK_DOWN" /\ mods = {"CTRL"} -> "local"
      [] key = "VK_DOWN" /\ mods = {"CTRL", "ALT"} -> "add_selection_below"
      [] key = "VK_DOWN" -> S(mods, "move_down", "move_down_and_modify_selection")
      [] key = "VK_LEFT" /\ (Alt(mods) \/ Ctrl(mods)) ->
            S(mods, "move_word_left", "move_word_left_and_modify_selection")
      [] key = "VK_LEFT" -> S(mods, "move_left", "move_left_and_modify_selection")
      [] key = "VK_RIGHT" /\ (Alt(mods) \/ Ctrl(mods)) ->
            S(mods, "move_word_right", "move_word_right_and_modify_selection")
      [] key = "VK_RIGHT" -> S(mods, "move_right", "move_right_and_modify_selection")
      [] key = "VK_PRIOR" -> S(mods, "scroll_page_up", "page_up_and_modify_selection")
      [] key = "VK_NEXT" -> S(mods, "scroll_page_down", "page_down_and_modify_selection")
      [] key = "VK_HOME" /\ Ctrl(mods) ->
            S(mods, "move_to_beginning_of_document",
                    "move_to_beginning_of_document_and_modify_selection")
      [] key = "VK_HOME" ->
            S(mods, "move_to_left_end_of_line",
                    "move_to_left_end_of_line_and_modify_selection")
      [] key = "VK_END" /\ Ctrl(mods) ->
            S(mods, "move_to_end_of_document",
                    "move_to_end_of_document_and_modify_selection")
      [] key = "VK_END" ->
            S(mods, "move_to_right_end_of_line",
                    "move_to_right_end_of_line_and_modify_selection")
      [] key = "VK_ESCAPE" -> "cancel_operation"
      [] key = "VK_BACK" /\ Ctrl(mods) ->
            S(mods, "delete_word_backward", "delete_to_beginning_of_line")
      [] key = "VK_BACK" -> "delete_backward"
      [] key = "VK_DELETE" /\ Ctrl(mods) ->
            S(mods, "delete_word_forward", "delete_to_end_of_paragraph")
      [] key = "VK_DELETE" -> "delete_forward"
      [] key = "VK_OEM_4" /\ mods = {"CTRL"} -> "outdent"
      [] key = "VK_OEM_6" /\ mods = {"CTRL"} -> "indent"
      [] OTHER -> "none"

\* Enter, Tab, Up, Down, Left, Right, PageUp, PageDown, Home, End, Escape, [ and ]
MovementKeys ==
    {"VK_RETURN", "VK_TAB", "VK_UP", "VK_DOWN", "VK_LEFT", "VK_RIGHT", "VK_PRIOR",
     "VK_NEXT", "VK_HOME", "VK_END", "VK_ESCAPE", "VK_OEM_4", "VK_OEM_6"}

\* the notification of a step: a scroll command with the new visible range
\* exactly when that range differs from the remembered one, which it replaces
Notified ==
    LET range == VisibleRange(scroll_offset', size', LineCacheHeight(line_cache'))
    IN  /\ viewport' = range
        /\ sent' = IF range # viewport
                   THEN <<Cmd("scroll", range, view_id')>>
                   ELSE <<>>

-----------------------------------------------------------------------------
(* C1: after any sequence of operations from a fresh view,                 *)
(* 0 <= scroll_offset <= TOP_PAD + LINE_SPACE * max(0, height - 1).        *)
C1_ScrollAlwaysLegal == ScrollIsLegal(scroll_offset, Height)

(* C2: keydown(Backspace, mods) and keydown(Delete, mods) each emit        *)
(* exactly one command, the one the table names; no second delete_forward  *)
(* follows.                                                                *)
C2_DeleteKeysEmitOnce ==
    (op.name = "keydown" /\ op.args[1] \in {"VK_BACK", "VK_DELETE"})
        => sent = <<ActionCmd(TableCommand(op.args[1], op.args[2]), view_id)>>

(* C3: for Enter, Tab, Up, Down, Left, Right, PageUp, PageDown, Home, End, *)
(* Escape, [ and ] and every modifier combination for which the table      *)
(* gives an engine command, keydown emits exactly that one command, with   *)
(* empty params; keydown(Right, SHIFT) emits only                          *)
(* move_right_and_modify_selection and keydown(Right, CTRL|SHIFT) emits    *)
(* move_word_right_and_modify_selection.                                   *)
C3_KeyDispatch ==
    /\ (/\ op.name = "keydown"
        /\ op.args[1] \in MovementKeys
        /\ TableCommand(op.args[1], op.args[2]) \notin {"local", "none"})
           => sent = <<Cmd(TableCommand(op.args[1], op.args[2]), <<>>, view_id)>>
    /\ IsKeydown(op, "VK_RIGHT", {"SHIFT"})
           => /\ Len(sent) = 1
              /\ sent[1].method = "move_right_and_modify_selection"
    /\ IsKeydown(op, "VK_RIGHT", {"CTRL", "SHIFT"})
           => /\ Len(sent) = 1
              /\ sent[1].method = "move_word_right_and_modify_selection"

C3_Witness ==
    /\ IsKeydown(op, "VK_RIGHT", {"CTRL", "SHIFT"})
    /\ Len(sent) = 1
    /\ sent[1].method = "move_word_right_and_modify_selection"
    /\ view_id = "view-id-1"

(* C4: keydown returns true if and only if (key, mods) maps to a row of    *)
(* the key dispatch table, an engine command row or a local scroll row; [  *)
(* and ] return true only when mods is exactly CTRL, and a key not in the  *)
(* table returns false.                                                    *)
C4_ReturnsTrueIffInTable ==
    op.name = "keydown"
        => /\ ret \in {"true", "false"}
           /\ ret = "true" <=> TableCommand(op.args[1], op.args[2]) # "none"

C4_Witness ==
    /\ IsKeydown(op, "VK_OEM_4", {"CTRL", "SHIFT"})
    /\ ret = "false"

\* what a Ctrl+Up / Ctrl+Down step does, step being the pixels it adds
C5_CtrlArrowStep(vk_code, step) ==
    IsKeydown(op', vk_code, {"CTRL"})
        => /\ scroll_offset' =
                  Clamp(scroll_offset + SCALE * step, 0, LegalMaxScroll(Height))
           /\ Notified
           /\ ret' = "true"
           /\ Len(sent') <= 1
           /\ \A i \in 1..Len(sent') : sent'[i].method = "scroll"

(* C5: keydown(Up, CTRL) sets scroll_offset to clamp(scroll_offset -       *)
(* LINE_SPACE) and keydown(Down, CTRL) to clamp(scroll_offset +            *)
(* LINE_SPACE), clamp restricting to [0, max_scroll]; each then runs the   *)
(* viewport notification, returns true and emits nothing but at most one   *)
(* scroll command.  With height 100 and scroll 50, Ctrl+Up leaves scroll   *)
(* at 33.                                                                  *)
C5_CtrlArrowsScroll ==
    /\ [][/\ C5_CtrlArrowStep("VK_UP", 0 - LINE_SPACE)
          /\ C5_CtrlArrowStep("VK_DOWN", LINE_SPACE)]_vars
    /\ LET hundred == LineCacheApplyUpdate(LineCacheNew, [ok |-> TRUE, height |-> 100])
       IN  constrain_scroll(SCALE * 50 + keydown_scroll_step("VK_UP", M_CTRL), hundred)
               = SCALE * 33

\* Ctrl+Up has moved a two-line view from its lowest position, 23, up to 6
C5_Witness ==
    /\ IsKeydown(op, "VK_UP", {"CTRL"})
    /\ Height = 2
    /\ scroll_offset = SCALE * 6
    /\ Len(sent) = 1

(* C6: the viewport notification emits scroll(first, last) only when the   *)
(* visible range differs from the remembered one, and then stores it; two  *)
(* consecutive notifications with no change of size, scroll_offset or      *)
(* height in between emit at most one scroll command, and no two           *)
(* successive scroll commands of the outbound stream carry the same range. *)
C6_NotifyOnlyOnChange ==
    [][/\ IsNotifying(op') => Notified
       /\ (\E i \in 1..Len(sent') : sent'[i].method = "scroll")
              => /\ IsNotifying(op')
                 /\ sent'[1].params # last_scroll
                 /\ sent'[1].params # viewport
       /\ (/\ IsNotifying(op)
           /\ IsNotifying(op')
           /\ <<size', scroll_offset', Height'>> = <<size, scroll_offset, Height>>)
              => Len(sent) + Len(sent') <= 1]_vars

\* a notification that found the remembered range still current and sent nothing
C6_Witness ==
    /\ IsNotifying(op)
    /\ sent = <<>>
    /\ last_scroll # <<>>
    /\ last_scroll = viewport

(* C7: every scroll(first, last) command carries first = y_to_line(0) on   *)
(* the already clamped scroll_offset and last = first + floor(height_px /  *)
(* LINE_SPACE) + 1, last not clamped to the document height; with height   *)
(* 0, scroll 0 and size (800, 600) the visible range is [0, 36).           *)
C7_ScrollCommandRange ==
    /\ \A i \in 1..Len(sent) :
          sent[i].method = "scroll"
              => /\ ScrollIsLegal(scroll_offset, Height)
                 /\ sent[i].params[1] = LineAt(0, scroll_offset, Height)
                 /\ sent[i].params[2] =
                        sent[i].params[1] + (size[2] \div LINE_SPACE) + 1
    /\ (Height = 0 /\ scroll_offset = 0 /\ size = <<800, 600>>)
           => visible_range(scroll_offset, size, line_cache) = <<0, 36>>

\* the scroll command of a view of height 0: its range ends beyond the document
C7_Witness ==
    /\ Len(sent) = 1
    /\ sent[1].method = "scroll"
    /\ sent[1].params = <<0, 36>>
    /\ Height = 0
    /\ scroll_offset = 0
    /\ size = <<800, 600>>

(* C8: mouse_wheel(delta, mods) sets scroll_offset to                      *)
(* min(max(old - delta * 0.5, 0), max_scroll) for every delta and mods,    *)
(* then runs the viewport notification and requests a repaint; with height *)
(* 2, a wheel movement that would add 1000 pixels leaves scroll_offset at  *)
(* 23.                                                                     *)
C8_WheelScrolls ==
    [][op'.name = "mouse_wheel"
          => /\ 2 * scroll_offset' =
                    2 * Min(Max(scroll_offset - (SCALE * op'.args[1]) \div 2, 0),
                            LegalMaxScroll(Height))
             /\ Notified
             /\ invalidated'
             /\ (Height = 2 /\ op'.args[1] = 0 - 2000) => scroll_offset' = SCALE * 23
      ]_vars

C8_Witness ==
    /\ op.name = "mouse_wheel"
    /\ op.args[1] = 0 - 2000
    /\ op.args[2] = {"SHIFT", "ALT"}
    /\ Height = 2
    /\ scroll_offset = SCALE * 23
    /\ invalidated

\* a Unicode scalar value: at most 0x10FFFF and no surrogate
IsScalarValue(ch) == ch >= 0 /\ ch <= 1114111 /\ (ch < 55296 \/ ch > 57343)

(* C9: char(ch, mods) emits exactly one command insert{chars: c} when ch   *)
(* is a valid Unicode scalar value with ch >= 0x20 and no command          *)
(* otherwise; it leaves scroll_offset, size, the remembered viewport and   *)
(* the line cache unchanged, whatever mods is.                             *)
C9_CharInserts ==
    [][op'.name = "char"
          => /\ sent' = IF IsScalarValue(op'.args[1]) /\ op'.args[1] >= 32
                        THEN <<Cmd("insert", [chars |-> <<op'.args[1]>>], view_id)>>
                        ELSE <<>>
             /\ UNCHANGED <<scroll_offset, size, viewport, line_cache>>
      ]_vars

\* "A" typed with CTRL held, inserted in a view that has scrolled
C9_Witness ==
    /\ op.name = "char"
    /\ op.args[1] = 65
    /\ op.args[2] = {"CTRL"}
    /\ sent = <<Cmd("insert", [chars |-> <<65>>], view_id)>>
    /\ scroll_offset > 0

(* C10: size, apply_update and clear_line_cache end with clamping: right   *)
(* after each returns, scroll_offset lies in [0, TOP_PAD + LINE_SPACE *    *)
(* max(0, height - 1)] for the new height, even when it was called with a  *)
(* scroll_offset legal only for the old height (the case stated here).     *)
C10_ResizeEndsClamped ==
    [][(/\ op'.name \in {"size", "apply_update", "clear_line_cache"}
        /\ ScrollIsLegal(scroll_offset, Height))
          => ScrollIsLegal(scroll_offset', Height')]_vars

\* content_y(L) = TOP_PAD + L * LINE_SPACE, in 1/SCALE pixels
ContentY(line) == SCALE * (TOP_PAD + line * LINE_SPACE)

\* h - 20 for a view h pixels high, in 1/SCALE pixels
BelowSlop(sz) == SCALE * (sz[2] - 20)

\* a step of scroll_to(L) leaves scroll_offset alone when content_y(L)
\* already lies in [scroll, scroll + h - 20]
ScrollToKeepsVisibleLine ==
    LET y == ContentY(op'.args[1])
    IN  (scroll_offset <= y /\ y <= scroll_offset + BelowSlop(size))
            => scroll_offset' = scroll_offset

C12_YToLine ==
    \A y \in ScreenYs :
        /\ y_to_line(y, scroll_offset, line_cache) = LineAt(y, scroll_offset, Height)
        /\ y >= 0 => y_to_line(y, scroll_offset, line_cache) <= Height

\* a notification has computed y_to_line(0) = 1 at the bottom of a two-line
\* document, where y = -40 lies above line 0 and y = 600 below the last line
C12_Witness ==
    /\ IsNotifying(op)
    /\ Height = 2
    /\ scroll_offset = SCALE * 23
    /\ viewport[1] = 1
    /\ y_to_line(0 - 40, scroll_offset, line_cache) = 0
    /\ y_to_line(600, scroll_offset, line_cache) = 2

\* the engine method of each menu command
MenuMethod(name) ==
    CASE name = "undo" -> "undo"
      [] name = "redo" -> "redo"
      [] name = "upper_case" -> "uppercase"
      [] name = "lower_case" -> "lowercase"
      [] name = "transpose" -> "transpose"
      [] name = "add_cursor_above" -> "add_selection_above"
      [] name = "add_cursor_below" -> "add_selection_below"
      [] name = "single_selection" -> "cancel_operation"
      [] name = "select_all" -> "select_all"

MenuCommands ==
    {"undo", "redo", "upper_case", "lower_case", "transpose", "add_cursor_above",
     "add_cursor_below", "single_selection", "select_all"}

(* C13: each menu command emits exactly one engine command, with empty     *)
(* params and the mapped method, and leaves scroll_offset, size and the    *)
(* remembered viewport unchanged.                                          *)
C13_MenuCommands ==
    [][op'.name \in MenuCommands
          => /\ sent' = <<Cmd(MenuMethod(op'.name), <<>>, view_id)>>
             /\ UNCHANGED <<scroll_offset, size, viewport>> ]_vars

\* single_selection on a scrolled view whose remembered viewport is not empty
C13_Witness ==
    /\ op.name = "single_selection"
    /\ sent = <<Cmd("cancel_operation", <<>>, view_id)>>
    /\ scroll_offset > 0
    /\ viewport # <<0, 0>>

(* C14: every command emitted to the engine carries the view_id the view   *)
(* holds when it is emitted; set_view_id(v) makes v that view_id, emits    *)
(* nothing and changes no other state, and no other operation changes the  *)
(* view_id, so every command before the next set_view_id carries v.        *)
C14_CommandsCarryViewId ==
    [][/\ \A i \in 1..Len(sent') : sent'[i].view_id = view_id'
       /\ IF op'.name = "set_view_id"
          THEN /\ view_id' = op'.args[1]
               /\ sent' = <<>>
               /\ last_scroll' = last_scroll
               /\ UNCHANGED <<line_cache, resources, scroll_offset, size, viewport>>
          ELSE view_id' = view_id ]_vars

\* a scroll command and a pair of action commands emitted under the
\* identity given by an earlier set_view_id
C14_Witness ==
    /\ view_id = "view-id-1"
    /\ \/ /\ op.name = "mouse_wheel"
          /\ Len(sent) = 1
          /\ sent[1].method = "scroll"
          /\ sent[1].view_id = "view-id-1"
       \/ /\ op.name = "char"
          /\ Len(sent) = 1
          /\ sent[1].method = "insert"
          /\ sent[1].view_id = "view-id-1"

\* the (key, mods) pairs that have no row in the dispatch table
UnmappedPairs == {km \in Keys \X Mods : TableCommand(km[1], km[2]) = "none"}

(* C15: a keydown whose (key, mods) is not in the dispatch table, an       *)
(* unmapped key or [ / ] with mods other than exactly CTRL, returns false, *)
(* emits no engine command, requests no repaint, and leaves scroll_offset, *)
(* size, the remembered viewport and the line cache unchanged.             *)
C15_UnmappedKeyIgnored ==
    [][(op'.name = "keydown" /\ op'.args \in UnmappedPairs)
          => /\ ret' = "false"
             /\ sent' = <<>>
             /\ ~invalidated'
             /\ UNCHANGED <<scroll_offset, size, viewport, line_cache>> ]_vars

\* an unmapped key with CTRL held, on a scrolled view with a document
C15_Witness ==
    /\ IsKeydown(op, "VK_F1", {"CTRL"})
    /\ ret = "false"
    /\ sent = <<>>
    /\ scroll_offset > 0
    /\ Height > 0

(* C16 as claimed: in every reachable state the remembered viewport        *)
(* [first, last) satisfies first <= last <= height, height being the line  *)
(* cache's current height.                                                 *)
C16_ViewportWithinHeight ==
    /\ viewport[1] <= viewport[2]
    /\ viewport[2] <= Height

(* C16 as amended: in every reachable state first <= last; right after a   *)
(* Ctrl+Up / Ctrl+Down or a mouse_wheel, first <= height and last is       *)
(* first + floor(height_px / LINE_SPACE) + 1, which is not clamped to the  *)
(* height.                                                                 *)
C16_ViewportOrdered ==
    /\ viewport[1] <= viewport[2]
    /\ IsNotifying(op) => /\ viewport[1] <= Height
                          /\ viewport[2] = viewport[1] + size[2] \div LINE_SPACE + 1

\* a 600-pixel window at the bottom of a two-line document: lines [1, 37)
C16_Witness ==
    /\ IsNotifying(op)
    /\ Height = 2
    /\ viewport = <<1, 37>>

(* C17: after every Ctrl+Up / Ctrl+Down keydown and every mouse_wheel, the *)
(* range of the most recently emitted scroll command equals the current    *)
(* visible range; so some scroll command has been emitted by then, the     *)
(* first such event on a fresh view always emitting one.                   *)
C17_LastScrollIsCurrent ==
    IsNotifying(op)
        => /\ last_scroll = VisibleRange(scroll_offset, size, Height)
           /\ sent = <<>> => last_scroll = viewport

\* the first event of a fresh view is a mouse_wheel: it emits scroll [0, 1)
C17_Witness ==
    /\ op.name = "mouse_wheel"
    /\ size = <<0, 0>>
    /\ Height = 0
    /\ scroll_offset = 0
    /\ view_id = ""
    /\ ~resources
    /\ sent = <<Cmd("scroll", <<0, 1>>, "")>>
    /\ last_scroll = <<0, 1>>

\* the operations C18 lists that are not user-driven scroll events
UnnotifiedChanges == {"size", "apply_update", "clear_line_cache", "scroll_to"}

(* C18 as claimed: after any of size, apply_update, clear_line_cache,      *)
(* scroll_to, Ctrl+Up/Down and mouse_wheel that changes size,              *)
(* scroll_offset or the line cache height, the remembered viewport equals  *)
(* the visible range of the new (size, scroll_offset, height).             *)
C18_ViewportRefreshed ==
    [][((op'.name \in UnnotifiedChanges \/ IsNotifying(op'))
            /\ <<size', scroll_offset', Height'>> # <<size, scroll_offset, Height>>)
          => viewport' = VisibleRange(scroll_offset', size', Height') ]_vars

(* C18 as amended: after a Ctrl+Up / Ctrl+Down or a mouse_wheel the        *)
(* remembered viewport equals the visible range of the new (size,          *)
(* scroll_offset, height); size, apply_update, clear_line_cache and        *)
(* scroll_to leave the remembered viewport as it was.                      *)
C18_ViewportRefreshedOnScrollEvents ==
    [][/\ IsNotifying(op') => viewport' = VisibleRange(scroll_offset', size', Height')
       /\ op'.name \in UnnotifiedChanges => viewport' = viewport ]_vars

\* a resize has left a remembered viewport that is not the visible range
C18_Witness ==
    /\ op.name = "size"
    /\ size = <<800, 600>>
    /\ viewport # <<0, 0>>
    /\ viewport # VisibleRange(scroll_offset, size, Height)

(* C19: apply_update, size, clear_line_cache, scroll_to and                *)
(* rebuild_resources emit no engine command, so the outbound command       *)
(* stream is unchanged, and they leave view_id and the remembered viewport *)
(* unchanged; a patch rejected as malformed issues no engine command.      *)
C19_NoCommandFromUpdates ==
    [][op'.name \in {"apply_update", "size", "clear_line_cache", "scroll_to",
                     "rebuild_resources"}
          => /\ sent' = <<>>
             /\ last_scroll' = last_scroll
             /\ view_id' = view_id
             /\ viewport' = viewport ]_vars

\* a malformed patch arriving after a scroll command has been emitted
C19_Witness ==
    /\ op.name = "apply_update"
    /\ ~op.args[1].ok
    /\ last_scroll # <<>>
    /\ viewport = last_scroll
    /\ sent = <<>>

(* C20: scroll_to is idempotent: for every line, every size (heights below *)
(* the 20-pixel bottom slop included) and every prior scroll_offset, a     *)
(* second scroll_to of the same line right after the first leaves the      *)
(* scroll_offset the first one left.                                       *)
C20_ScrollToIdempotent ==
    [][(op.name = "scroll_to" /\ op'.name = "scroll_to" /\ op'.args = op.args)
          => scroll_offset' = scroll_offset ]_vars

====
